---------------------------- MODULE Spec2Model ----------------------------
(***************************************************************************)
(* CourseCrafter: the Roadmap pipeline (roadmap.py), the Topic-Search      *)
(* pipeline (youtube_topic_finder.py) and the chunked response generator   *)
(* stream_gemini_response.  One run of the model is one run of one of the  *)
(* three programs, chosen by app.  Python strings are sequences of         *)
(* one-character strings.                                                  *)
(***************************************************************************)
EXTENDS Integers, Sequences, FiniteSets, TLC

VARIABLES
    app,            \* which program runs: "roadmap", "search" or "stream"
    pc,             \* position of the running program
    ui,             \* what the Streamlit calls have put on the page, in order
    escaped,        \* TRUE once an exception has left main()
    calls,          \* the functions main() has called, in order
    topic,          \* the text field's content
    response,       \* the last answer of generate_content
    ai_roadmap,     \* roadmap.py main: ai_roadmap
    phases,         \* create_roadmap_visualization: phases
    i,              \* create_roadmap_visualization: loop index
    start_date,     \* create_roadmap_visualization: start_date, in weeks from now
    traces,         \* the traces added to fig
    env,            \* the environment: YOUTUBE_API_KEY and GEMINI_API_KEY
    content_type,   \* the sidebar's resource type
    max_results,    \* the sidebar's slider
    youtube_service,
    gemini_model,
    refined_query,
    topic_insight,
    search_call,    \* the arguments of the search request sent, if any
    search_response, \* search_youtube_content: what the search API answered
    pending,        \* search_youtube_content: the items not yet looped over
    results_local,  \* search_youtube_content: results
    results,        \* main: results
    received,       \* stream_gemini_response: the chunk texts read so far
    accumulated_response,
    yielded         \* stream_gemini_response: the values yielded so far

rvars == <<ai_roadmap, phases, i, start_date, traces>>
svars == <<env, content_type, max_results, youtube_service, gemini_model,
           refined_query, topic_insight, search_call, search_response, pending,
           results_local, results>>
gvars == <<received, accumulated_response, yielded>>
vars == <<app, pc, ui, escaped, calls, topic, response, rvars, svars, gvars>>

NoValue == "None"

(***************************************************************************)
(* Bounds.                                                                 *)
(***************************************************************************)
MaxLen == 4          \* longest generated text enumerated exhaustively
MaxPhases == 4       \* most phase blocks in a well-formed generated roadmap
MaxQueryLen == 3     \* longest refined query the API answers with
MaxItems == 2        \* most items in a search response
MaxChunks == 3       \* most chunks in a streamed response

(***************************************************************************)
(* Characters.                                                             *)
(***************************************************************************)
Digits == {"0", "1", "2", "3", "4", "5", "6", "7", "8", "9"}
Whitespace == {" ", "\n", "\t", "\r", "\f"}
IsDigit(c) == c \in Digits
IsSpace(c) == c \in Whitespace

RECURSIVE SeqsUpTo(_, _)
SeqsUpTo(S, n) ==
    IF n = 0 THEN {<<>>}
    ELSE LET shorter == SeqsUpTo(S, n - 1)
         IN  shorter \cup {Append(s, c) : s \in {t \in shorter : Len(t) = n - 1}, c \in S}

StartsWith(s, p) == Len(s) >= Len(p) /\ SubSeq(s, 1, Len(p)) = p

(***************************************************************************)
(* The regular expression of create_roadmap_visualization: a group of     *)
(* one or more digits, a period, any whitespace and one or more characters *)
(* other than a newline, followed by any number of lines beginning with a  *)
(* dash; and the one of main()'s statistics, which is the group alone.     *)
(* Both as re.findall runs them: leftmost match, greedy with backtracking, *)
(* scan resumed at the end of the match, the group returned.  Positions    *)
(* are 1-based; an end is one past.                                        *)
(***************************************************************************)
RECURSIVE DigitsEnd(_, _)
DigitsEnd(s, p) ==
    IF p <= Len(s) /\ IsDigit(s[p]) THEN DigitsEnd(s, p + 1) ELSE p

RECURSIVE SpaceEnd(_, _)
SpaceEnd(s, p) ==
    IF p <= Len(s) /\ IsSpace(s[p]) THEN SpaceEnd(s, p + 1) ELSE p

RECURSIVE LineEnd(_, _)
LineEnd(s, p) ==
    IF p <= Len(s) /\ s[p] # "\n" THEN LineEnd(s, p + 1) ELSE p

\* The lines beginning with a dash that follow position p.
RECURSIVE DashLinesEnd(_, _)
DashLinesEnd(s, p) ==
    IF p + 1 <= Len(s) /\ s[p] = "\n" /\ s[p + 1] = "-"
    THEN DashLinesEnd(s, LineEnd(s, p + 2))
    ELSE p

\* Where the whitespace run may stop so that a character other than a newline
\* follows: the run is greedy, so the match uses the last such place.
BodyStarts(s, p) == {k \in p..SpaceEnd(s, p) : k <= Len(s) /\ s[k] # "\n"}

Max(S) == CHOOSE x \in S : \A y \in S : y <= x

\* The match of the pattern at position p: [ok, label, end].
MatchAt(s, p, dashes) ==
    LET d == DigitsEnd(s, p)
    IN  IF d > p /\ d <= Len(s) /\ s[d] = "." /\ BodyStarts(s, d + 1) # {}
        THEN LET e == LineEnd(s, Max(BodyStarts(s, d + 1)))
             IN  [ok |-> TRUE, label |-> SubSeq(s, p, e - 1),
                  end |-> IF dashes THEN DashLinesEnd(s, e) ELSE e]
        ELSE [ok |-> FALSE, label |-> <<>>, end |-> p]

RECURSIVE FindAllFrom(_, _, _)
FindAllFrom(s, p, dashes) ==
    IF p > Len(s) THEN <<>>
    ELSE LET m == MatchAt(s, p, dashes)
         IN  IF m.ok THEN <<m.label>> \o FindAllFrom(s, m.end, dashes)
             ELSE FindAllFrom(s, p + 1, dashes)

\* roadmap.py:70-71
ExtractPhases(roadmap_text) == FindAllFrom(roadmap_text, 1, TRUE)

\* roadmap.py:158
StatsPhases(roadmap_text) == FindAllFrom(roadmap_text, 1, FALSE)

(***************************************************************************)
(* String literals of the source.                                          *)
(***************************************************************************)
\* The common head of the fallback strings, "Unable to generate".
UnableToGenerate ==
    <<"U", "n", "a", "b", "l", "e", " ", "t", "o", " ", "g", "e", "n", "e",
    "r", "a", "t", "e">>

\* roadmap.py:59
UnableRoadmap ==
    <<"U", "n", "a", "b", "l", "e", " ", "t", "o", " ", "g", "e", "n", "e",
    "r", "a", "t", "e", " ", "r", "o", "a", "d", "m", "a", "p", ".">>

\* roadmap.py:63, the text before the exception
ErrorGeneratingRoadmap ==
    <<"E", "r", "r", "o", "r", " ", "g", "e", "n", "e", "r", "a", "t", "i",
    "n", "g", " ", "r", "o", "a", "d", "m", "a", "p", ":", " ">>

\* A roadmap of three phases, two of them with a dash line.
SpecExample ==
    <<"1", ".", " ", "F", "o", "o", "\n", "-", " ", "x", "\n", "2", ".", " ",
    "B", "a", "r", "\n", "-", " ", "y", "\n", "3", ".", " ", "B", "a", "z">>

\* One phase of a roadmap in the format the prompt asks for.
PhaseBlock ==
    <<"1", ".", " ", "a", "\n", "-", " ", "b", "\n">>

\* youtube_topic_finder.py:82
UnableInsight ==
    <<"U", "n", "a", "b", "l", "e", " ", "t", "o", " ", "g", "e", "n", "e",
    "r", "a", "t", "e", " ", "t", "o", "p", "i", "c", " ", "i", "n", "s", "i",
    "g", "h", "t", ".">>

\* youtube_topic_finder.py:188, the text before the exception
ErrorGeneratingResponse ==
    <<"E", "r", "r", "o", "r", " ", "g", "e", "n", "e", "r", "a", "t", "i",
    "n", "g", " ", "r", "e", "s", "p", "o", "n", "s", "e", ":", " ">>

\* youtube_topic_finder.py:99
WatchUrl ==
    <<"h", "t", "t", "p", "s", ":", "/", "/", "w", "w", "w", ".", "y", "o",
    "u", "t", "u", "b", "e", ".", "c", "o", "m", "/", "w", "a", "t", "c", "h",
    "?", "v", "=">>

\* youtube_topic_finder.py:103
PlaylistUrl ==
    <<"h", "t", "t", "p", "s", ":", "/", "/", "w", "w", "w", ".", "y", "o",
    "u", "t", "u", "b", "e", ".", "c", "o", "m", "/", "p", "l", "a", "y", "l",
    "i", "s", "t", "?", "l", "i", "s", "t", "=">>

RECURSIVE Repeat(_, _)
Repeat(s, n) == IF n = 0 THEN <<>> ELSE s \o Repeat(s, n - 1)

(***************************************************************************)
(* What the hosted generation API may answer to generate_content: it       *)
(* raises, it returns None, it returns a response whose .text raises (a    *)
(* blocked response), or it returns a response with a text.                *)
(***************************************************************************)
ErrMsgs == {<<"x">>, <<"y">>}

Outcomes(texts) ==
    [kind : {"raise", "blocked"}, e : ErrMsgs, text : {<<>>}]
        \cup [kind : {"none"}, e : {<<>>}, text : {<<>>}]
        \cup [kind : {"text"}, e : {<<>>}, text : texts]

RoadmapAlphabet == {"1", ".", " ", "\n", "-", "a"}

RoadmapTexts ==
    SeqsUpTo(RoadmapAlphabet, MaxLen)
        \cup {Repeat(PhaseBlock, k) : k \in 0..MaxPhases}
        \cup {SpecExample}

Topics == {<<>>, <<"t">>, <<" ", "t">>}

(***************************************************************************)
(* Page output.                                                            *)
(***************************************************************************)
Show(kind, what, arg) == [kind |-> kind, what |-> what, arg |-> arg]

Shown(kind, what) == \E k \in 1..Len(ui) : ui[k].kind = kind /\ ui[k].what = what

(***************************************************************************)
(* roadmap.py                                                              *)
(***************************************************************************)
ShortWeeks == 4
LongWeeks == 6
ShortPhases == 2
NumColors == 4
WeeksPerPhase == 4

\* generate_comprehensive_roadmap without the check of line 55 for an empty
\* text.
generate_comprehensive_roadmap_unchecked(o) ==
    IF o.kind \in {"raise", "blocked"}
    THEN [ret |-> ErrorGeneratingRoadmap \o o.e,
          out |-> <<Show("error", "Roadmap Generation Error", o.e)>>]
    ELSE IF o.kind = "text"
    THEN [ret |-> o.text, out |-> <<>>]
    ELSE [ret |-> UnableRoadmap,
          out |-> <<Show("error", "No response generated. Please try again.", <<>>)>>]

\* AIRoadmapGenerator.generate_comprehensive_roadmap: the value returned and
\* the page output, for an answer o of the API.
generate_comprehensive_roadmap(o) ==
    IF o.kind \in {"raise", "blocked"}
    THEN [ret |-> ErrorGeneratingRoadmap \o o.e,
          out |-> <<Show("error", "Roadmap Generation Error", o.e)>>]
    ELSE IF o.kind = "text" /\ o.text # <<>>
    THEN [ret |-> o.text, out |-> <<>>]
    ELSE [ret |-> UnableRoadmap,
          out |-> <<Show("error", "No response generated. Please try again.", <<>>)>>]

\* Duration with the first three phases short instead of the first two.
duration_off_by_one(k) == IF k <= ShortPhases THEN ShortWeeks ELSE LongWeeks

\* line 84
duration(k) == IF k < ShortPhases THEN ShortWeeks ELSE LongWeeks

\* lines 88-98
Bar(k, phase) ==
    [x |-> duration(k), y |-> phase, color |-> k % NumColors, name |-> phase]

\* main, lines 113-120: the page set up and the generator constructed, outside
\* every try.
R_Construct ==
    /\ app = "roadmap" /\ pc = "r_start"
    /\ \E ok \in BOOLEAN :
        /\ escaped' = ~ok
        /\ pc' = IF ok THEN "r_input" ELSE "done"
    /\ UNCHANGED <<response, svars, gvars, app, ui, calls, topic, rvars>>

\* main, lines 123-136: the text field and the button.
R_Input ==
    /\ app = "roadmap" /\ pc = "r_input"
    /\ \E t \in Topics, clicked \in BOOLEAN :
        /\ topic' = t
        /\ pc' = IF clicked /\ t # <<>> THEN "r_generate" ELSE "r_tail"
    /\ UNCHANGED <<response, svars, gvars, app, ui, escaped, calls, rvars>>

\* main, lines 140-143
R_Generate ==
    /\ app = "roadmap" /\ pc = "r_generate"
    /\ \E o \in Outcomes(RoadmapTexts) :
        LET r == generate_comprehensive_roadmap(o)
        IN  /\ response' = o
            /\ ai_roadmap' = r.ret
            /\ ui' = ui \o r.out \o <<Show("header", "Roadmap for", topic)>>
    /\ calls' = Append(calls, "generate_comprehensive_roadmap")
    /\ pc' = "r_extract"
    /\ UNCHANGED <<svars, gvars, app, escaped, topic, phases, i, start_date, traces>>

\* create_roadmap_visualization, lines 69-81
R_Extract ==
    /\ app = "roadmap" /\ pc = "r_extract"
    /\ phases' = ExtractPhases(ai_roadmap)
    /\ i' = 0
    /\ start_date' = 0
    /\ traces' = <<>>
    /\ calls' = Append(calls, "create_roadmap_visualization")
    /\ pc' = "r_loop"
    /\ UNCHANGED <<response, svars, gvars, app, ui, escaped, topic, ai_roadmap>>

\* The chart's failure left to the outer handler of lines 166-167.
VisualizationErrorOuter ==
    /\ ui' = Append(ui, Show("error", "Error generating roadmap", <<>>))
    /\ pc' = "r_tail"

\* main, lines 153-154
VisualizationError ==
    /\ ui' = Append(ui, Show("error", "Visualization Error", <<>>))
    /\ pc' = "r_stats"

\* create_roadmap_visualization, lines 82-100: one turn of the loop.
R_AddTrace ==
    /\ app = "roadmap" /\ pc = "r_loop" /\ i < Len(phases)
    /\ \/ /\ traces' = Append(traces, Bar(i, phases[i + 1]))
          /\ start_date' = start_date + duration(i)
          /\ i' = i + 1
          /\ UNCHANGED <<ui, pc>>
       \/ /\ VisualizationError
          /\ UNCHANGED <<traces, start_date, i>>
    /\ UNCHANGED <<response, svars, gvars, app, escaped, calls, topic, ai_roadmap,
                   phases>>

\* create_roadmap_visualization, lines 102-110: the loop is over.
R_ReturnFigure ==
    /\ app = "roadmap" /\ pc = "r_loop" /\ i >= Len(phases)
    /\ pc' = "r_chart"
    /\ UNCHANGED <<response, svars, gvars, app, ui, escaped, calls, topic, rvars>>

\* main, lines 151-154
R_Chart ==
    /\ app = "roadmap" /\ pc = "r_chart"
    /\ \/ /\ ui' = Append(ui, Show("plotly_chart", "Learning Path Timeline", Len(traces)))
          /\ pc' = "r_stats"
       \/ VisualizationError
    /\ UNCHANGED <<response, svars, gvars, app, escaped, calls, topic, rvars>>

\* main, lines 166-167
OuterError ==
    /\ ui' = Append(ui, Show("error", "Error generating roadmap", <<>>))
    /\ pc' = "r_tail"

\* main, lines 156-160
R_Stats ==
    /\ app = "roadmap" /\ pc = "r_stats"
    /\ \/ /\ ui' = ui \o
                <<Show("metric", "Total Phases", Len(StatsPhases(ai_roadmap))),
                  Show("metric", "Estimated Duration",
                       Len(StatsPhases(ai_roadmap)) * WeeksPerPhase)>>
          /\ pc' = "r_text"
       \/ OuterError
    /\ UNCHANGED <<response, svars, gvars, app, escaped, calls, topic, rvars>>

\* main, lines 162-164
R_Text ==
    /\ app = "roadmap" /\ pc = "r_text"
    /\ \/ /\ ui' = ui \o
                <<Show("header", "Detailed Learning Phases", <<>>),
                  Show("markdown", "roadmap", ai_roadmap)>>
          /\ pc' = "r_tail"
       \/ OuterError
    /\ UNCHANGED <<response, svars, gvars, app, escaped, calls, topic, rvars>>

\* main, lines 169-181
R_Tail ==
    /\ app = "roadmap" /\ pc = "r_tail"
    /\ ui' = Append(ui, Show("markdown", "How to Use", <<>>))
    /\ pc' = "done"
    /\ UNCHANGED <<response, svars, gvars, app, escaped, calls, topic, rvars>>

RoadmapNext ==
    \/ R_Construct \/ R_Input \/ R_Generate \/ R_Extract \/ R_AddTrace
    \/ R_ReturnFigure \/ R_Chart \/ R_Stats \/ R_Text \/ R_Tail

(***************************************************************************)
(* youtube_topic_finder.py                                                 *)
(***************************************************************************)
SliderMin == 5
SliderDefault == 10
SliderMax == 25

KeyValues == {NoValue, "", "key"}

Envs == [YOUTUBE_API_KEY : KeyValues, GEMINI_API_KEY : KeyValues]

\* Python's truth value of an optional string.
Truthy(v) == v # NoValue /\ v # ""

QueryAlphabet == {" ", "q"}

InsightTexts == {<<>>, <<"g">>}

\* str.strip()
RECURSIVE LStrip(_)
LStrip(s) == IF s # <<>> /\ IsSpace(Head(s)) THEN LStrip(Tail(s)) ELSE s

RECURSIVE RStrip(_)
RStrip(s) ==
    IF s # <<>> /\ IsSpace(s[Len(s)]) THEN RStrip(SubSeq(s, 1, Len(s) - 1)) ELSE s

Strip(s) == RStrip(LStrip(s))

\* refine_search_query without the fallback for a text that strips to nothing.
refine_search_query_no_fallback(original_query, o) ==
    IF o.kind = "text"
    THEN [ret |-> Strip(o.text), out |-> <<>>]
    ELSE [ret |-> original_query,
          out |-> <<Show("error", "Error refining search query", o.e)>>]

\* refine_search_query: the value returned and the page output, for an answer
\* o of the API.
refine_search_query(original_query, o) ==
    IF o.kind = "text"
    THEN [ret |-> IF Strip(o.text) # <<>> THEN Strip(o.text) ELSE original_query,
          out |-> <<>>]
    ELSE [ret |-> original_query,
          out |-> <<Show("error", "Error refining search query", o.e)>>]

\* generate_topic_insight: the value returned and the page output, for an
\* answer o of the API.
generate_topic_insight(o) ==
    IF o.kind = "text"
    THEN [ret |-> o.text, out |-> <<>>]
    ELSE [ret |-> UnableInsight,
          out |-> <<Show("error", "Error generating topic insight", o.e)>>]

\* The items of a search response: item k carries the k-th id; an item may be of
\* either kind and may lack a field of its snippet.
ItemId(k) == Repeat(<<"x">>, k)

Items(k) ==
    [idkey : {"videoId", "playlistId"}, idval : {ItemId(k)}, complete : BOOLEAN]

RECURSIVE ItemSeqs(_)
ItemSeqs(n) ==
    IF n = 0 THEN {<<>>}
    ELSE ItemSeqs(n - 1)
            \cup {Append(s, it) : s \in {t \in ItemSeqs(n - 1) : Len(t) = n - 1},
                                  it \in Items(n)}

SearchResponses ==
    [kind : {"raise"}, items : {<<>>}]
        \cup [kind : {"noitems"}, items : {<<>>}]
        \cup [kind : {"items"}, items : ItemSeqs(MaxItems)]

\* main, line 260
ApiType(ct) == IF ct = "Videos" THEN "video" ELSE "playlist"

\* search_youtube_content, lines 98-103: the key read from item['id'].
IdKey(ctype) == IF ctype = "video" THEN "videoId" ELSE "playlistId"

\* search_youtube_content, lines 98-103
link(ctype, item) ==
    IF ctype = "video" THEN WatchUrl \o item.idval ELSE PlaylistUrl \o item.idval

\* search_youtube_content, lines 98-111: whether building the result of item
\* raises (a key is missing).
BuildRaises(ctype, item) == item.idkey # IdKey(ctype) \/ ~item.complete

\* search_youtube_content, lines 105-111
Result(ctype, item) ==
    [title |-> <<"T">> \o item.idval,
     description |-> <<"D">> \o item.idval,
     thumbnail |-> <<"U">> \o item.idval,
     link |-> link(ctype, item),
     channel |-> <<"C">> \o item.idval]

\* display_results, lines 132-151
RECURSIVE ResultRows(_)
ResultRows(rs) ==
    IF rs = <<>> THEN <<>>
    ELSE <<Show("result", "Watch Now", Head(rs).link)>> \o ResultRows(Tail(rs))

\* display_results with the guide shown before the list is looked at.
display_results_guide_first(rs, insight) ==
    (IF insight # <<>>
     THEN <<Show("expander", "Learning Roadmap", insight)>>
     ELSE <<>>)
    \o (IF rs = <<>>
        THEN <<Show("warning", "No results found.", <<>>)>>
        ELSE <<Show("subheader", "Top Learning Resources", <<>>)>> \o ResultRows(rs))

\* display_results: the page output.
display_results(rs, insight) ==
    IF rs = <<>>
    THEN <<Show("warning", "No results found.", <<>>)>>
    ELSE (IF insight # <<>>
          THEN <<Show("expander", "Learning Roadmap", insight)>>
          ELSE <<>>)
         \o <<Show("subheader", "Top Learning Resources", <<>>)>>
         \o ResultRows(rs)

\* main, lines 204-238: the sidebar, the text field, the button.
S_Input ==
    /\ app = "search" /\ pc = "s_start"
    /\ \E ct \in {"Videos", "Playlists"}, mr \in {SliderMin, SliderDefault, SliderMax},
          t \in Topics, clicked \in BOOLEAN :
        /\ content_type' = ct
        /\ max_results' = mr
        /\ topic' = t
        /\ IF ~clicked
           THEN pc' = "s_tail" /\ ui' = ui
           ELSE IF t = <<>>
           THEN /\ ui' = Append(ui, Show("warning",
                                         "Please describe the topic you want to learn.",
                                         <<>>))
                /\ pc' = "done"
           ELSE pc' = "s_youtube" /\ ui' = ui
    /\ UNCHANGED <<response, rvars, gvars, app, escaped, calls, env, youtube_service,
                   gemini_model, refined_query, topic_insight, search_call,
                   search_response, pending, results_local, results>>

\* get_youtube_service, called at line 241
get_youtube_service ==
    /\ app = "search" /\ pc = "s_youtube"
    /\ IF ~Truthy(env.YOUTUBE_API_KEY)
       THEN /\ ui' = Append(ui, Show("error", "YouTube API Key not found.", <<>>))
            /\ youtube_service' = NoValue
            /\ pc' = "s_gemini"
            /\ UNCHANGED escaped
       ELSE \E ok \in BOOLEAN :
            /\ youtube_service' = IF ok THEN "youtube" ELSE NoValue
            /\ escaped' = ~ok
            /\ pc' = IF ok THEN "s_gemini" ELSE "done"
            /\ UNCHANGED ui
    /\ calls' = Append(calls, "get_youtube_service")
    /\ UNCHANGED <<response, rvars, gvars, app, topic, env, content_type, max_results,
                   gemini_model, refined_query, topic_insight, search_call,
                   search_response, pending, results_local, results>>

\* get_gemini_service, called at line 242
get_gemini_service ==
    /\ app = "search" /\ pc = "s_gemini"
    /\ IF ~Truthy(env.GEMINI_API_KEY)
       THEN /\ ui' = Append(ui, Show("error", "Gemini API Key not found.", <<>>))
            /\ gemini_model' = NoValue
            /\ pc' = "s_check"
            /\ UNCHANGED escaped
       ELSE \E ok \in BOOLEAN :
            /\ gemini_model' = IF ok THEN "gemini-pro" ELSE NoValue
            /\ escaped' = ~ok
            /\ pc' = IF ok THEN "s_check" ELSE "done"
            /\ UNCHANGED ui
    /\ calls' = Append(calls, "get_gemini_service")
    /\ UNCHANGED <<response, rvars, gvars, app, topic, env, content_type, max_results,
                   youtube_service, refined_query, topic_insight, search_call,
                   search_response, pending, results_local, results>>

\* The check of line 244 with "and" for "or".
S_CheckBoth ==
    /\ app = "search" /\ pc = "s_check"
    /\ pc' = IF youtube_service = NoValue /\ gemini_model = NoValue
             THEN "done" ELSE "s_refine"
    /\ UNCHANGED <<response, rvars, svars, gvars, app, ui, escaped, calls, topic>>

\* main, lines 244-245
S_Check ==
    /\ app = "search" /\ pc = "s_check"
    /\ pc' = IF youtube_service = NoValue \/ gemini_model = NoValue
             THEN "done" ELSE "s_refine"
    /\ UNCHANGED <<response, rvars, svars, gvars, app, ui, escaped, calls, topic>>

\* main, lines 248-249
S_Refine ==
    /\ app = "search" /\ pc = "s_refine"
    /\ \E o \in Outcomes(SeqsUpTo(QueryAlphabet, MaxQueryLen)) :
        LET r == refine_search_query(topic, o)
        IN  /\ response' = o
            /\ refined_query' = r.ret
            /\ ui' = ui \o r.out
    /\ calls' = Append(calls, "refine_search_query")
    /\ pc' = "s_insight"
    /\ UNCHANGED <<rvars, gvars, app, escaped, topic, env, content_type, max_results,
                   youtube_service, gemini_model, topic_insight, search_call,
                   search_response, pending, results_local, results>>

\* main, lines 252-253
S_Insight ==
    /\ app = "search" /\ pc = "s_insight"
    /\ \E o \in Outcomes(InsightTexts) :
        LET r == generate_topic_insight(o)
        IN  /\ response' = o
            /\ topic_insight' = r.ret
            /\ ui' = ui \o r.out
    /\ calls' = Append(calls, "generate_topic_insight")
    /\ pc' = "s_search"
    /\ UNCHANGED <<rvars, gvars, app, escaped, topic, env, content_type, max_results,
                   youtube_service, gemini_model, refined_query, search_call,
                   search_response, pending, results_local, results>>

\* search_youtube_content, line 117
SearchErrorNotice == Show("error", "An error occurred while searching YouTube", <<>>)

\* The handler returning what the loop had built so far.
SearchErrorPartial ==
    /\ ui' = Append(ui, SearchErrorNotice)
    /\ results' = results_local
    /\ pc' = "s_display"

\* search_youtube_content, lines 116-118
SearchError ==
    /\ ui' = Append(ui, SearchErrorNotice)
    /\ results' = <<>>
    /\ pc' = "s_display"

\* main, lines 256-262, and search_youtube_content, lines 85-95: the request.
S_Search ==
    /\ app = "search" /\ pc = "s_search"
    /\ search_call' = [q |-> refined_query, type |-> ApiType(content_type),
                       maxResults |-> max_results]
    /\ calls' = Append(calls, "search_youtube_content")
    /\ \E resp \in SearchResponses :
        /\ search_response' = resp
        /\ IF resp.kind = "raise"
           THEN /\ ui' = ui \o <<Show("write", "Searching", refined_query),
                                 SearchErrorNotice>>
                /\ results' = <<>>
                /\ pc' = "s_display"
                /\ UNCHANGED <<pending, results_local>>
           ELSE /\ ui' = Append(ui, Show("write", "Searching", refined_query))
                /\ pending' = resp.items
                /\ results_local' = <<>>
                /\ pc' = "s_build"
                /\ UNCHANGED results
    /\ UNCHANGED <<response, rvars, gvars, app, escaped, topic, env, content_type,
                   max_results, youtube_service, gemini_model, refined_query,
                   topic_insight>>

\* search_youtube_content, lines 96-112: one turn of the loop.
S_BuildItem ==
    /\ app = "search" /\ pc = "s_build" /\ pending # <<>>
    /\ IF BuildRaises(search_call.type, Head(pending))
       THEN /\ SearchError
            /\ UNCHANGED <<pending, results_local>>
       ELSE /\ results_local' = Append(results_local, Result(search_call.type, Head(pending)))
            /\ pending' = Tail(pending)
            /\ UNCHANGED <<ui, pc, results>>
    /\ UNCHANGED <<response, rvars, gvars, app, escaped, calls, topic, env, content_type,
                   max_results, youtube_service, gemini_model, refined_query,
                   topic_insight, search_call, search_response>>

\* search_youtube_content, line 114
S_Return ==
    /\ app = "search" /\ pc = "s_build" /\ pending = <<>>
    /\ results' = results_local
    /\ pc' = "s_display"
    /\ UNCHANGED <<response, rvars, gvars, app, ui, escaped, calls, topic, env,
                   content_type, max_results, youtube_service, gemini_model,
                   refined_query, topic_insight, search_call, search_response, pending,
                   results_local>>

\* main, line 265
S_Display ==
    /\ app = "search" /\ pc = "s_display"
    /\ ui' = ui \o display_results(results, topic_insight)
    /\ calls' = Append(calls, "display_results")
    /\ pc' = "s_tail"
    /\ UNCHANGED <<response, rvars, svars, gvars, app, escaped, topic>>

\* main, lines 267-280, and create_chatbot
S_Tail ==
    /\ app = "search" /\ pc = "s_tail"
    /\ ui' = ui \o <<Show("sidebar", "AI Learning Companion", <<>>),
                     Show("sidebar", "Learning Tips", <<>>)>>
    /\ pc' = "done"
    /\ UNCHANGED <<response, rvars, svars, gvars, app, escaped, calls, topic>>

SearchNext ==
    \/ S_Input \/ get_youtube_service \/ get_gemini_service \/ S_Check
    \/ S_Refine \/ S_Insight \/ S_Search \/ S_BuildItem \/ S_Return
    \/ S_Display \/ S_Tail

(***************************************************************************)
(* stream_gemini_response, consumed to the end.                            *)
(***************************************************************************)
ChunkTexts == {<<>>, <<"a">>, <<"b">>}

\* Line 182 with "=" for "+=".
AccumulateLast(acc, text) == text

\* line 182
Accumulate(acc, text) == acc \o text

\* line 188
StreamError(e) == ErrorGeneratingResponse \o e

\* line 176: the streaming request.
G_Request ==
    /\ app = "stream" /\ pc = "g_start"
    /\ \/ /\ accumulated_response' = <<>>
          /\ pc' = "g_loop"
          /\ UNCHANGED yielded
       \/ \E e \in ErrMsgs :
            /\ yielded' = Append(yielded, StreamError(e))
            /\ pc' = "done"
            /\ UNCHANGED accumulated_response
    /\ UNCHANGED <<response, rvars, svars, app, ui, escaped, calls, topic, received>>

\* lines 180-185: the next chunk arrives and its text is read.
G_Chunk ==
    /\ app = "stream" /\ pc = "g_loop" /\ Len(received) < MaxChunks
    /\ \E t \in ChunkTexts :
        /\ received' = Append(received, t)
        /\ accumulated_response' = Accumulate(accumulated_response, t)
        /\ yielded' = Append(yielded, Accumulate(accumulated_response, t))
    /\ UNCHANGED <<response, rvars, svars, app, pc, ui, escaped, calls, topic>>

\* lines 180-188: the stream, or the reading of a chunk's text, raises.
G_Fail ==
    /\ app = "stream" /\ pc = "g_loop"
    /\ \E e \in ErrMsgs : yielded' = Append(yielded, StreamError(e))
    /\ pc' = "done"
    /\ UNCHANGED <<response, rvars, svars, app, ui, escaped, calls, topic, received,
                   accumulated_response>>

\* line 180: the stream is exhausted.
G_End ==
    /\ app = "stream" /\ pc = "g_loop"
    /\ pc' = "done"
    /\ UNCHANGED <<response, rvars, svars, gvars, app, ui, escaped, calls, topic>>

StreamNext == G_Request \/ G_Chunk \/ G_Fail \/ G_End

(***************************************************************************)
(* The runs.                                                               *)
(***************************************************************************)
StartOf(a) ==
    IF a = "roadmap" THEN "r_start" ELSE IF a = "search" THEN "s_start" ELSE "g_start"

Init ==
    /\ app \in {"roadmap", "search", "stream"}
    /\ pc = StartOf(app)
    /\ ui = <<>>
    /\ escaped = FALSE
    /\ calls = <<>>
    /\ topic = <<>>
    /\ response = NoValue
    /\ ai_roadmap = <<>>
    /\ phases = <<>>
    /\ i = 0
    /\ start_date = 0
    /\ traces = <<>>
    /\ env \in Envs
    /\ (app # "search" => env = [YOUTUBE_API_KEY |-> NoValue, GEMINI_API_KEY |-> NoValue])
    /\ content_type = "Videos"
    /\ max_results = SliderDefault
    /\ youtube_service = NoValue
    /\ gemini_model = NoValue
    /\ refined_query = <<>>
    /\ topic_insight = <<>>
    /\ search_call = NoValue
    /\ search_response = NoValue
    /\ pending = <<>>
    /\ results_local = <<>>
    /\ results = <<>>
    /\ received = <<>>
    /\ accumulated_response = <<>>
    /\ yielded = <<>>

Next == RoadmapNext \/ SearchNext \/ StreamNext

Spec == Init /\ [][Next]_vars

(***************************************************************************)
(* Properties.                                                             *)
(***************************************************************************)
IsPrefix(p, s) == StartsWith(s, p)

\* The index of the first page entry of this kind and label, 0 if none.
FirstShown(kind, what) ==
    IF Shown(kind, what)
    THEN CHOOSE k \in 1..Len(ui) :
            /\ ui[k].kind = kind /\ ui[k].what = what
            /\ \A j \in 1..(k - 1) : ~(ui[j].kind = kind /\ ui[j].what = what)
    ELSE 0

Called(f) == \E k \in 1..Len(calls) : calls[k] = f

\* The lines of a text: the pieces between its newlines.
RECURSIVE Lines(_)
Lines(s) ==
    LET e == LineEnd(s, 1)
    IN  IF e > Len(s) THEN <<s>>
        ELSE <<SubSeq(s, 1, e - 1)>> \o Lines(SubSeq(s, e + 1, Len(s)))

\* A line that begins with an integer and a period and goes on with at least
\* one character.
IsNumberedLine(l) ==
    LET d == DigitsEnd(l, 1)
    IN  d > 1 /\ d < Len(l) /\ l[d] = "."

NumberedLines(s) == SelectSeq(Lines(s), IsNumberedLine)

\* C1: the phases extracted from a roadmap text are exactly its lines that begin
\* with an integer and a period, in text order, one label per such line.
C1_PhasesAreTheNumberedLines ==
    (app = "roadmap" /\ pc = "r_loop") => phases = NumberedLines(ai_roadmap)

RECURSIVE SumX(_)
SumX(ts) == IF ts = <<>> THEN 0 ELSE Head(ts).x + SumX(Tail(ts))

\* C2: while and after the loop of create_roadmap_visualization runs, the
\* traces added so far are those of the first phases, in phase order; trace k
\* (counted from 0) lasts 4 weeks if k < 2 and 6 weeks otherwise; start_date is
\* the sum of the durations of the phases before the current one (0, 4, 8, 14,
\* ...); when the figure is returned there are exactly as many traces as phases,
\* none for no phase.
C2_TimelineAssignment ==
    (app = "roadmap" /\ pc \in {"r_loop", "r_chart"}) =>
        /\ Len(traces) = i
        /\ i <= Len(phases)
        /\ \A k \in 1..Len(traces) :
            /\ traces[k].y = phases[k]
            /\ traces[k].x = (IF k - 1 < 2 THEN 4 ELSE 6)
        /\ start_date = SumX(traces)
        /\ start_date = (IF i <= 2 THEN 4 * i ELSE 8 + 6 * (i - 2))
        /\ (pc = "r_chart" => Len(traces) = Len(phases))

\* Four phases, the fourth about to be given its bar: the three bars before it
\* last 4, 4 and 6 weeks and it starts at week 14.
C2_Witness ==
    /\ app = "roadmap" /\ pc = "r_loop"
    /\ Len(phases) = 4 /\ i = 3
    /\ start_date = 14
    /\ <<traces[1].x, traces[2].x, traces[3].x>> = <<4, 4, 6>>

AllSpace(s) == \A k \in 1..Len(s) : IsSpace(s[k])

\* r is t without its surrounding whitespace.
IsStripped(r, t) ==
    /\ r # <<>> /\ ~IsSpace(r[1]) /\ ~IsSpace(r[Len(r)])
    /\ \E a \in 0..Len(t) :
        /\ a + Len(r) <= Len(t)
        /\ SubSeq(t, a + 1, a + Len(r)) = r
        /\ AllSpace(SubSeq(t, 1, a))
        /\ AllSpace(SubSeq(t, a + Len(r) + 1, Len(t)))

\* C3: refine_search_query does not raise; when the generation call raised or
\* gave no text, or a text that is empty or all whitespace, the query returned
\* is the topic exactly as entered; otherwise it is the generated text without
\* its surrounding whitespace; and the search request carries that query.
C3_RefinedQuery ==
    /\ (app = "search" /\ pc = "s_insight") =>
        /\ ~escaped
        /\ IF response.kind # "text" \/ AllSpace(response.text)
           THEN refined_query = topic
           ELSE IsStripped(refined_query, response.text)
    /\ (app = "search" /\ Called("search_youtube_content")) =>
        search_call.q = refined_query

\* The generation call raised for a topic that begins with a blank: the query
\* is the topic, blank included.
C3_Witness ==
    /\ app = "search" /\ pc = "s_insight"
    /\ response.kind = "raise"
    /\ topic = <<" ", "t">>
    /\ refined_query = <<" ", "t">>

\* The items of the search response that came back, none if it has no items.
ResponseItems == IF search_response.kind = "items" THEN search_response.items ELSE <<>>

SearchFailed ==
    \/ search_response.kind = "raise"
    \/ \E k \in 1..Len(ResponseItems) :
        \/ ResponseItems[k].idkey # (IF search_call.type = "video" THEN "videoId"
                                     ELSE "playlistId")
        \/ ~ResponseItems[k].complete

\* C4: once search_youtube_content has returned, either the request and every
\* item went through and results holds one result per item, in the order of the
\* response, each with the watch link of its id for videos and the playlist link
\* otherwise; or something failed and results is empty, with the error on the
\* page.  No other list is returned.
C4_SearchResults ==
    (app = "search" /\ pc = "s_display") =>
        IF SearchFailed
        THEN /\ results = <<>>
             /\ ui[Len(ui)] = Show("error", "An error occurred while searching YouTube", <<>>)
             /\ ~escaped
        ELSE /\ Len(results) = Len(ResponseItems)
             /\ \A k \in 1..Len(results) :
                    results[k].link =
                        (IF search_call.type = "video" THEN WatchUrl ELSE PlaylistUrl)
                            \o ResponseItems[k].idval
             /\ ~Shown("error", "An error occurred while searching YouTube")

\* Two playlists came back and both were built.
C4_Witness ==
    /\ app = "search" /\ pc = "s_display"
    /\ search_call.type = "playlist"
    /\ Len(ResponseItems) = 2 /\ Len(results) = 2
    /\ results[2].link = PlaylistUrl \o <<"x", "x">>

\* The second item of a response could not be built after the first one was:
\* the list returned is empty.
C4_WitnessFailure ==
    /\ app = "search" /\ pc = "s_display"
    /\ search_response.kind = "items" /\ Len(ResponseItems) = 2
    /\ ~BuildRaises(search_call.type, ResponseItems[1])
    /\ BuildRaises(search_call.type, ResponseItems[2])
    /\ results = <<>>

\* The generation call failed: it raised, or gave no text.
GenerationFailed(r) == r.kind # "text" \/ r.text = <<>>

GenerationRaised(r) == r.kind \in {"raise", "blocked"}

\* C5 as stated: after a failed generation call in generate_comprehensive_roadmap
\* or generate_topic_insight an error is on the page and the value returned
\* begins with "Unable to generate".
C5_AsStated ==
    /\ (app = "roadmap" /\ pc = "r_extract" /\ GenerationFailed(response)) =>
        /\ \E k \in 1..Len(ui) : ui[k].kind = "error"
        /\ StartsWith(ai_roadmap, UnableToGenerate)
    /\ (app = "search" /\ pc = "s_search" /\ GenerationFailed(response)) =>
        /\ Shown("error", "Error generating topic insight")
        /\ StartsWith(topic_insight, UnableToGenerate)

\* C5, amended: neither function raises and the run goes on to its next step.
\* generate_comprehensive_roadmap reports every failed call; it returns
\* "Error generating roadmap: " and the exception when the call raised, and
\* "Unable to generate roadmap." when the call gave no text.
\* generate_topic_insight reports a call that raised or gave no response and
\* returns "Unable to generate topic insight."; an empty text it returns as it
\* is, with nothing reported.
C5_Fallbacks ==
    /\ (app = "roadmap" /\ pc = "r_extract") =>
        /\ ~escaped
        /\ IF GenerationRaised(response)
           THEN /\ Shown("error", "Roadmap Generation Error")
                /\ ai_roadmap = ErrorGeneratingRoadmap \o response.e
           ELSE IF GenerationFailed(response)
           THEN /\ Shown("error", "No response generated. Please try again.")
                /\ ai_roadmap = UnableRoadmap
           ELSE /\ ai_roadmap = response.text
                /\ \A k \in 1..Len(ui) : ui[k].kind # "error"
    /\ (app = "search" /\ pc = "s_search") =>
        /\ ~escaped
        /\ IF response.kind # "text"
           THEN /\ Shown("error", "Error generating topic insight")
                /\ topic_insight = UnableInsight
           ELSE /\ topic_insight = response.text
                /\ ~Shown("error", "Error generating topic insight")

\* The insight call gave an empty text: the empty text is the insight, nothing
\* is reported, and the run is at the search.
C5_Witness ==
    /\ app = "search" /\ pc = "s_search"
    /\ response.kind = "text" /\ response.text = <<>>
    /\ topic_insight = <<>>
    /\ ~Shown("error", "Error generating topic insight")

\* C6: no exception leaves main().
C6_NothingEscapes == ~escaped

KeyMissing == ~Truthy(env.YOUTUBE_API_KEY) \/ ~Truthy(env.GEMINI_API_KEY)

\* C7: in a run of the Topic-Search pipeline with one of the two keys unset or
\* empty, the getter of that key, once called, has reported the error and
\* returned None, and the run never refines the query, generates the insight,
\* sends a search request or displays results.
C7_MissingKeyHalts ==
    (app = "search" /\ KeyMissing) =>
        /\ pc \in {"s_start", "s_youtube", "s_gemini", "s_check", "s_tail", "done"}
        /\ \A f \in {"refine_search_query", "generate_topic_insight",
                     "search_youtube_content", "display_results"} : ~Called(f)
        /\ search_call = NoValue
        /\ ~Shown("warning", "No results found.")
        /\ ~Shown("subheader", "Top Learning Resources")
        /\ (Called("get_youtube_service") /\ ~Truthy(env.YOUTUBE_API_KEY)) =>
            (Shown("error", "YouTube API Key not found.") /\ youtube_service = NoValue)
        /\ (Called("get_gemini_service") /\ ~Truthy(env.GEMINI_API_KEY)) =>
            (Shown("error", "Gemini API Key not found.") /\ gemini_model = NoValue)

\* The search key is unset, the generation key is set and its model was built:
\* the run has ended after the two getters.
C7_Witness ==
    /\ app = "search" /\ pc = "done"
    /\ env.YOUTUBE_API_KEY = NoValue /\ env.GEMINI_API_KEY = "key"
    /\ gemini_model = "gemini-pro"
    /\ calls = <<"get_youtube_service", "get_gemini_service">>

RECURSIVE Concat(_)
Concat(ts) == IF ts = <<>> THEN <<>> ELSE Head(ts) \o Concat(Tail(ts))

\* The chunk texts behind the k-th yielded value: the first k read, or all of
\* them when fewer were read.
FirstChunks(k) == SubSeq(received, 1, IF k <= Len(received) THEN k ELSE Len(received))

\* C8 as stated: the k-th value yielded is the concatenation of the first k
\* chunk texts, and every value yielded begins with the one yielded before it.
C8_AsStated ==
    app = "stream" =>
        /\ \A k \in 1..Len(yielded) : yielded[k] = Concat(FirstChunks(k))
        /\ \A k \in 2..Len(yielded) : IsPrefix(yielded[k - 1], yielded[k])

\* C8, amended: for each chunk read, in order, one value is yielded, the
\* concatenation of the chunk texts read up to it, so each of these values
\* begins with the one before; the generator ends when the stream does; and when
\* the request or the stream raises, it ends with one more value, "Error
\* generating response: " and the exception, which is not built from the chunks.
C8_Accumulated ==
    app = "stream" =>
        /\ Len(received) <= Len(yielded) /\ Len(yielded) <= Len(received) + 1
        /\ \A k \in 1..Len(received) : yielded[k] = Concat(SubSeq(received, 1, k))
        /\ \A k \in 2..Len(received) : IsPrefix(yielded[k - 1], yielded[k])
        /\ accumulated_response = Concat(received)
        /\ Len(yielded) = Len(received) + 1 =>
            /\ pc = "done"
            /\ \E e \in ErrMsgs : yielded[Len(yielded)] = ErrorGeneratingResponse \o e

\* Two chunks were read and yielded, "a" then "ab", and then the stream raised.
C8_Witness ==
    /\ app = "stream" /\ pc = "done"
    /\ received = << <<"a">>, <<"b">> >>
    /\ Len(yielded) = 3
    /\ yielded[1] = <<"a">> /\ yielded[2] = <<"a", "b">>
    /\ StartsWith(yielded[3], ErrorGeneratingResponse)

\* The index of the last page entry of this kind and label, 0 if none.
LastShown(kind, what) ==
    IF Shown(kind, what)
    THEN CHOOSE k \in 1..Len(ui) :
            /\ ui[k].kind = kind /\ ui[k].what = what
            /\ \A j \in (k + 1)..Len(ui) : ~(ui[j].kind = kind /\ ui[j].what = what)
    ELSE 0

\* What C9 says of a state with the notice on the page.
AfterVisualizationError ==
    (app = "roadmap" /\ Shown("error", "Visualization Error")) =>
        /\ Called("generate_comprehensive_roadmap")
        /\ ~escaped
        /\ pc \in {"r_stats", "r_text", "r_tail", "done"}
        /\ ~Shown("plotly_chart", "Learning Path Timeline")
        /\ (pc \in {"r_tail", "done"} /\ ~Shown("error", "Error generating roadmap")) =>
            /\ FirstShown("metric", "Total Phases") > LastShown("error", "Visualization Error")
            /\ FirstShown("metric", "Estimated Duration")
                    > LastShown("error", "Visualization Error")
            /\ FirstShown("markdown", "roadmap") > LastShown("error", "Visualization Error")
            /\ ui[FirstShown("markdown", "roadmap")].arg = ai_roadmap

\* A step that leaves the building or the rendering of the chart without the
\* chart on the page.
ChartFails ==
    /\ app = "roadmap"
    /\ pc \in {"r_loop", "r_chart"} /\ pc' \notin {"r_loop", "r_chart"}
    /\ ~(\E k \in 1..Len(ui') : ui'[k].kind = "plotly_chart")

\* C9: in the Roadmap pipeline a failure while the chart is built or rendered,
\* which comes after generate_comprehensive_roadmap has returned, puts the
\* "Visualization Error" notice on the page and takes the run to the statistics;
\* and unless one of the later calls fails in its turn (reported by the outer
\* handler), the run ends with the two metrics and the roadmap text on the
\* page, after the notice.
C9_VisualizationError ==
    /\ []AfterVisualizationError
    /\ [][ChartFails =>
            /\ pc' = "r_stats"
            /\ ui' = Append(ui, Show("error", "Visualization Error", <<>>))
            /\ ai_roadmap' = ai_roadmap]_vars

\* The chart of a roadmap with phases failed while its second bar was added, and
\* the run has ended with the statistics and the text on the page.
C9_Witness ==
    /\ app = "roadmap" /\ pc = "done"
    /\ Shown("error", "Visualization Error")
    /\ Len(phases) >= 2 /\ Len(traces) = 1
    /\ Shown("metric", "Total Phases")
    /\ Shown("markdown", "roadmap")

\* C10: once display_results has run, an empty result list has put the "No
\* results found." warning on the page and neither the guide nor a result,
\* although the guide had been generated; a non-empty list has put the guide on
\* the page, before the first result, exactly when the guide is a non-empty
\* string.  The guide is on the page in no other state.
C10_GuideNeedsResults ==
    app = "search" =>
        /\ Shown("expander", "Learning Roadmap") =>
            (Called("display_results") /\ results # <<>>)
        /\ Called("display_results") =>
            /\ Called("generate_topic_insight")
            /\ IF results = <<>>
               THEN /\ Shown("warning", "No results found.")
                    /\ ~Shown("expander", "Learning Roadmap")
                    /\ ~Shown("result", "Watch Now")
                    /\ ~Shown("subheader", "Top Learning Resources")
               ELSE /\ ~Shown("warning", "No results found.")
                    /\ Shown("result", "Watch Now")
                    /\ Shown("expander", "Learning Roadmap") <=> (topic_insight # <<>>)
                    /\ topic_insight # <<>> =>
                        /\ FirstShown("expander", "Learning Roadmap")
                                < FirstShown("result", "Watch Now")
                        /\ ui[FirstShown("expander", "Learning Roadmap")].arg
                                = topic_insight

\* The search failed after a guide was generated: the warning is on the page
\* and the guide is not.
C10_Witness ==
    /\ app = "search" /\ pc = "done"
    /\ Called("display_results")
    /\ topic_insight = <<"g">>
    /\ search_response.kind = "raise"
    /\ results = <<>>
    /\ Shown("warning", "No results found.")
    /\ ~Shown("expander", "Learning Roadmap")

=============================================================================
